---------------------------- MODULE Spec2Model ----------------------------
(***************************************************************************)
(* Model of app.py (wrong-answer-rate statistics generator).               *)
(*                                                                         *)
(* Three specifications share the module's variables:                      *)
(*   SpecParser  robust_parse_wrong_list applied to one cell               *)
(*   SpecRates   compute_module_rates applied to one series of outcomes    *)
(*   Spec        one run of the script's upload handling (lines 75-137)    *)
(*                                                                         *)
(* Text is modelled as a sequence of characters.  ASCII characters stand   *)
(* for themselves; a non-ASCII character is written by its code point:     *)
(*   "U+FF0C" full-width comma      "U+FF1B" full-width semicolon          *)
(*   "U+00B2" superscript two       "U+FF11" full-width digit one          *)
(* The column header U+C774 U+B984 ("name") is written "ireum".            *)
(***************************************************************************)
EXTENDS Integers, Sequences, FiniteSets, TLC

VARIABLES
    pc,               \* position of the run
    cell,             \* SpecParser: the argument of robust_parse_wrong_list
    parsed,           \* SpecParser: what robust_parse_wrong_list returned
    series,           \* SpecRates: the outcomes handed to compute_module_rates
    total_questions,  \* SpecRates: the question count handed to it
    attempted,        \* SpecRates: the local `attempted` (line 52)
    rows,             \* SpecRates: the rows of the returned frame
    uploaded_file,    \* Spec: file_uploader's value (line 70)
    m1_total,         \* Spec: number_input "Module1" (line 66)
    m2_total,         \* Spec: number_input "Module2" (line 68)
    df,               \* Spec: the frame read from the upload
    M1_parsed,        \* Spec: df["M1_parsed"]
    M2_parsed,        \* Spec: df["M2_parsed"]
    m1_stats,         \* Spec: labelled Module1 rows
    m2_stats,         \* Spec: labelled Module2 rows
    combined,         \* Spec: the report
    shown             \* Spec: the elements the run has sent to the page, in order

parserVars == <<cell, parsed>>
ratesVars == <<series, total_questions, attempted, rows>>
appVars == <<uploaded_file, m1_total, m2_total, df, M1_parsed, M2_parsed,
             m1_stats, m2_stats, combined, shown>>
vars == <<pc, cell, parsed, series, total_questions, attempted, rows,
          uploaded_file, m1_total, m2_total, df, M1_parsed, M2_parsed,
          m1_stats, m2_stats, combined, shown>>

\* A value a variable holds while nothing has been assigned to it.
Unset == [tag |-> "unset", v |-> <<>>]

-----------------------------------------------------------------------------
(* Bounds *)

\* Longest cell text enumerated exhaustively over Alphabet.
MaxLen == 3
\* Most students in a series handed to compute_module_rates.
MaxStudents == 3
\* Largest total question count.
MaxTotal == 2
\* Most rows in an uploaded table.
MaxRows == 2

-----------------------------------------------------------------------------
(* Characters and Python's str methods *)

FWComma == "U+FF0C"
FWSemicolon == "U+FF1B"
Superscript2 == "U+00B2"
FWDigit1 == "U+FF11"

\* Characters int() reads as decimal digits (Unicode category Nd).
DecimalChars == {"0", "1", "2", "3", "4", "5", "6", "7", "8", "9", FWDigit1}
\* Characters for which str.isdigit() is true: the decimal digits and the
\* digits that are not decimal (superscripts and the like).
DigitChars == DecimalChars \cup {Superscript2}
Whitespace == {" "}

DigitValue(c) ==
    CASE c = "0" -> 0 [] c = "1" -> 1 [] c = "2" -> 2 [] c = "3" -> 3
      [] c = "4" -> 4 [] c = "5" -> 5 [] c = "6" -> 6 [] c = "7" -> 7
      [] c = "8" -> 8 [] c = "9" -> 9 [] c = FWDigit1 -> 1

RECURSIVE lstrip(_)
lstrip(s) == IF s # <<>> /\ Head(s) \in Whitespace THEN lstrip(Tail(s)) ELSE s

RECURSIVE rstrip(_)
rstrip(s) ==
    IF s # <<>> /\ s[Len(s)] \in Whitespace
    THEN rstrip(SubSeq(s, 1, Len(s) - 1))
    ELSE s

\* str.strip()
strip(s) == rstrip(lstrip(s))

LowerChar(c) == CASE c = "X" -> "x" [] c = "A" -> "a" [] OTHER -> c

\* str.lower()
lower(s) == [i \in 1..Len(s) |-> LowerChar(s[i])]

\* str.replace(old, new) for one-character old and new
replace(s, old, new) == [i \in 1..Len(s) |-> IF s[i] = old THEN new ELSE s[i]]

RECURSIVE split(_, _)
\* str.split(sep): the pieces between the separators, empty pieces kept
split(s, sep) ==
    IF \E i \in 1..Len(s) : s[i] = sep
    THEN LET i == CHOOSE k \in 1..Len(s) :
                      s[k] = sep /\ \A j \in 1..(k - 1) : s[j] # sep
         IN  <<SubSeq(s, 1, i - 1)>> \o split(SubSeq(s, i + 1, Len(s)), sep)
    ELSE <<s>>

\* A digit test that also lets a leading minus sign through.
isdigit_signed(s) ==
    \/ Len(s) > 0 /\ \A i \in 1..Len(s) : s[i] \in DigitChars
    \/ Len(s) > 1 /\ s[1] = "-" /\ \A i \in 2..Len(s) : s[i] \in DigitChars

\* str.isdigit(): at least one character, all of them digits
isdigit(s) == Len(s) > 0 /\ \A i \in 1..Len(s) : s[i] \in DigitChars

\* int(s) reads an optional sign followed by decimal digits (the caller has
\* already stripped s); on any other text it raises ValueError.
IntRaises(s) ==
    LET digits == IF s # <<>> /\ Head(s) = "-" THEN Tail(s) ELSE s
    IN  digits = <<>> \/ \E i \in 1..Len(digits) : digits[i] \notin DecimalChars

RECURSIVE IntDigits(_)
IntDigits(s) ==
    IF Len(s) = 0 THEN 0
    ELSE 10 * IntDigits(SubSeq(s, 1, Len(s) - 1)) + DigitValue(s[Len(s)])

int(s) == IF s # <<>> /\ Head(s) = "-" THEN 0 - IntDigits(Tail(s)) ELSE IntDigits(s)

-----------------------------------------------------------------------------
(* robust_parse_wrong_list *)

\* The three ways a call ends: None, a list, or a raised ValueError.
None == [tag |-> "None", v |-> <<>>]
List(l) == [tag |-> "list", v |-> l]
ValueError == [tag |-> "ValueError", v |-> <<>>]

\* A cell read from the sheet: missing (NaN), or a value with the text str()
\* gives for it.
NaN == [na |-> TRUE, text |-> <<>>]
Text(s) == [na |-> FALSE, text |-> s]

\* The separators line 47 turns into "," before the split.
NormalizeSeparators(s) == replace(replace(s, FWComma, ","), ";", ",")

\* The tokens the comprehension of line 48 keeps.
KeptTokens(s) == SelectSeq(split(s, ","), LAMBDA x : isdigit(strip(x)))

WrongList(s) ==
    LET kept == KeptTokens(s)
    IN  IF \E i \in 1..Len(kept) : IntRaises(strip(kept[i]))
        THEN ValueError
        ELSE List([i \in 1..Len(kept) |-> int(strip(kept[i]))])

robust_parse_wrong_list(c) ==
    IF c.na \/ strip(c.text) = <<>>
    THEN None
    ELSE LET s == strip(c.text)
         IN  IF lower(s) = <<"x">>
             THEN List(<<>>)
             ELSE WrongList(NormalizeSeparators(s))

-----------------------------------------------------------------------------
(* SpecParser: one call of robust_parse_wrong_list *)

Alphabet ==
    {"0", "1", "2", ",", ";", FWComma, FWSemicolon, " ", "x", "X", "a", "-",
     ".", Superscript2, FWDigit1}

RECURSIVE Strings(_)
Strings(n) ==
    IF n = 0 THEN {<<>>}
    ELSE LET shorter == Strings(n - 1)
         IN  shorter \cup {Append(s, c) : s \in {t \in shorter : Len(t) = n - 1},
                                          c \in Alphabet}

\* The cells of example_df and the cells the documentation gives as examples.
ExampleCells ==
    { <<"1", ",", "3", ",", "5">>, <<"X">>, <<"2", ",", "4", ",", "7">>, <<>>,
      <<"2", ",", "6">>, <<"1", ",", "3">>, <<"5">>,
      <<"1", FWComma, "3", FWSemicolon, "5">>,
      <<"1", FWComma, "3", ";", "5">>,
      <<"1", ",", "a", ",", "3">>,
      <<" ", "1", "0", " ", ",", " ", "x", " ">> }

Cells == {NaN} \cup {Text(s) : s \in Strings(MaxLen) \cup ExampleCells}

InitParser ==
    /\ pc = "call"
    /\ cell \in Cells
    /\ parsed = Unset
    /\ series = <<>> /\ total_questions = 0 /\ attempted = 0 /\ rows = <<>>
    /\ uploaded_file = Unset /\ m1_total = 0 /\ m2_total = 0 /\ df = Unset
    /\ M1_parsed = Unset /\ M2_parsed = Unset /\ m1_stats = Unset /\ m2_stats = Unset
    /\ combined = Unset /\ shown = <<>>

Parse ==
    /\ pc = "call"
    /\ parsed' = robust_parse_wrong_list(cell)
    /\ pc' = IF parsed'.tag = "ValueError" THEN "raised" ELSE "returned"
    /\ UNCHANGED <<cell, ratesVars, appVars>>

NextParser == Parse

SpecParser == InitParser /\ [][NextParser]_vars

-----------------------------------------------------------------------------
(* compute_module_rates *)

RECURSIVE Sum(_)
\* sum() of a sequence of numbers
Sum(s) == IF s = <<>> THEN 0 ELSE Head(s) + Sum(Tail(s))

\* bool as a number, as sum() reads it
BoolInt(b) == IF b THEN 1 ELSE 0

\* `q in v` for a list v
InList(q, v) == \E i \in 1..Len(v) : v[i] = q

\* line 52: sum(v is not None for v in series)
AttemptedCount(s) == Sum([i \in 1..Len(s) |-> BoolInt(s[i] # None)])

RECURSIVE Occurrences(_, _)
Occurrences(q, v) ==
    IF v = <<>> THEN 0 ELSE BoolInt(Head(v) = q) + Occurrences(q, Tail(v))

\* A tally that adds every occurrence of q (v.count(q)) instead of testing
\* membership.
WrongCount_occurrences(s, q) ==
    Sum([i \in 1..Len(s) |-> IF s[i] # None THEN Occurrences(q, s[i].v) ELSE 0])

\* line 55: sum((v is not None and q in v) for v in series)
WrongCount(s, q) ==
    Sum([i \in 1..Len(s) |-> BoolInt(s[i] # None /\ InList(q, s[i].v))])

\* A rounding that cuts the digits after the first decimal.
round1_truncating(wrong, att) == (1000 * wrong) \div att

\* round(x, 1) of x = 100 * wrong / att, in tenths of a percent: the nearest
\* tenth, a tie going to the even one.
round1(wrong, att) ==
    LET n == 1000 * wrong
        lo == n \div att
        r == n % att
    IN  IF 2 * r < att THEN lo
        ELSE IF 2 * r > att THEN lo + 1
        ELSE IF lo % 2 = 0 THEN lo ELSE lo + 1

\* line 56
Rate(wrong, att) == IF att > 0 THEN round1(wrong, att) ELSE 0

\* Python's range(lo, hi) as a sequence
range(lo, hi) == [i \in 1..(IF hi > lo THEN hi - lo ELSE 0) |-> lo + i - 1]

\* A loop that starts at question 0.
QuestionNumbers_from0(total) == range(0, total + 1)

\* line 54: the question numbers the loop visits
QuestionNumbers(total) == range(1, total + 1)

\* The rows of the returned frame; rate is in tenths of a percent.
compute_module_rates(s, total) ==
    LET att == AttemptedCount(s)
        qs == QuestionNumbers(total)
    IN  [i \in 1..Len(qs) |->
            [question_no |-> qs[i],
             rate |-> Rate(WrongCount(s, qs[i]), att),
             wrong |-> WrongCount(s, qs[i])]]

-----------------------------------------------------------------------------
(* SpecRates: one call of compute_module_rates *)

\* The lists of at most two numbers from lo..hi, in either order and with
\* duplicates.
WrongLists(lo, hi) ==
    {<<>>} \cup {<<a>> : a \in lo..hi} \cup ((lo..hi) \X (lo..hi))

\* What the parser can return for a student when the module has `total`
\* questions: None, or a list (duplicates and the out-of-range numbers 0 and
\* total + 1 included).
Outcomes(total) == {None} \cup {List(l) : l \in WrongLists(0, total + 1)}

InitRates ==
    /\ pc = "call"
    /\ total_questions \in 1..MaxTotal
    /\ \E n \in 0..MaxStudents : series \in [1..n -> Outcomes(total_questions)]
    /\ attempted = 0 /\ rows = <<>>
    /\ cell = NaN /\ parsed = Unset
    /\ uploaded_file = Unset /\ m1_total = 0 /\ m2_total = 0 /\ df = Unset
    /\ M1_parsed = Unset /\ M2_parsed = Unset /\ m1_stats = Unset /\ m2_stats = Unset
    /\ combined = Unset /\ shown = <<>>

ComputeRates ==
    /\ pc = "call"
    /\ attempted' = AttemptedCount(series)
    /\ rows' = compute_module_rates(series, total_questions)
    /\ pc' = "returned"
    /\ UNCHANGED <<series, total_questions, parserVars, appVars>>

NextRates == ComputeRates

SpecRates == InitRates /\ [][NextRates]_vars

-----------------------------------------------------------------------------
(* The upload handling of the script (lines 63-137) *)

\* A value that has been assigned: a parsed column, or the rows of a frame.
Value(x) == [tag |-> "value", v |-> x]

RECURSIVE str(_)
\* str(n) for an integer n >= 0: its decimal digits
str(n) ==
    LET d == CASE n % 10 = 0 -> "0" [] n % 10 = 1 -> "1" [] n % 10 = 2 -> "2"
               [] n % 10 = 3 -> "3" [] n % 10 = 4 -> "4" [] n % 10 = 5 -> "5"
               [] n % 10 = 6 -> "6" [] n % 10 = 7 -> "7" [] n % 10 = 8 -> "8"
               [] n % 10 = 9 -> "9"
    IN  IF n < 10 THEN <<d>> ELSE Append(str(n \div 10), d)

\* A required set that lacks "Module2".
required_cols_short == {"ireum", "Module1"}

\* line 79
required_cols == {"ireum", "Module1", "Module2"}

\* line 78: str(c).strip() of a header; a header is its name with or without
\* whitespace around it.
StripHeader(h) == h.name

\* Series.apply(robust_parse_wrong_list): the outcomes of the cells in order.
\* The first call that raises ends the apply, which then raises too.
ParseColumn(col) ==
    LET out == [i \in 1..Len(col) |-> robust_parse_wrong_list(col[i])]
    IN  IF \E i \in 1..Len(out) : out[i].tag = "ValueError"
        THEN ValueError
        ELSE Value(out)

\* df[name].apply(robust_parse_wrong_list); df[name] raises KeyError when the
\* frame has no such column.
ApplyParser(frame, name) ==
    IF name \notin frame.columns THEN [tag |-> "KeyError", v |-> <<>>]
    ELSE ParseColumn(frame.cells[name])

\* lines 89-90 and 91-92: the rows of one module, relabelled "<prefix>-<n>"
ModuleStats(prefix, outcomes, total) ==
    LET r == compute_module_rates(outcomes, total)
    IN  [i \in 1..Len(r) |->
            [question_no |-> prefix \o <<"-">> \o str(r[i].question_no),
             rate |-> r[i].rate,
             wrong |-> r[i].wrong]]

\* line 93: pd.concat([m1_stats, m2_stats], ignore_index=True)
concat(a, b) == a \o b

-----------------------------------------------------------------------------
(* Spec: one run of the script for one state of the widgets *)

\* The cell values of the uploaded sheets.
SheetCells == {NaN, Text(<<"X">>), Text(<<"1", ",", "2">>), Text(<<Superscript2>>)}

Header(n) == [name |-> n, padded |-> FALSE]
Padded(n) == [name |-> n, padded |-> TRUE]

\* The header rows of the uploaded sheets: every subset of the required
\* columns, and the three of them with one header padded and a further column.
HeaderRows ==
    {{Header(n) : n \in S} : S \in SUBSET {"ireum", "Module1", "Module2"}}
        \cup {{Header("ireum"), Padded("Module1"), Header("Module2"), Header("memo")}}

\* The sheets with the header row hs and n students.
Sheets(hs, n) ==
    LET modules == {h.name : h \in hs} \cap {"Module1", "Module2"}
    IN  {[tag |-> "xlsx", headers |-> hs, cells |-> c] :
            c \in [modules -> [1..n -> SheetCells]]}

Init ==
    /\ pc = "start"
    /\ \/ uploaded_file = [tag |-> "none"]
       \/ uploaded_file = [tag |-> "unreadable"]
       \/ \E hs \in HeaderRows, n \in 0..MaxRows : uploaded_file \in Sheets(hs, n)
    /\ m1_total \in 1..MaxTotal
    /\ m2_total \in 1..MaxTotal
    /\ df = Unset
    /\ M1_parsed = Unset /\ M2_parsed = Unset /\ m1_stats = Unset /\ m2_stats = Unset
    /\ combined = Unset /\ shown = <<>>
    /\ cell = NaN /\ parsed = Unset
    /\ series = <<>> /\ total_questions = 0 /\ attempted = 0 /\ rows = <<>>

\* What a run does not change: the widgets' values, and the variables of the
\* other two specifications.
widgets == <<uploaded_file, m1_total, m2_total, parserVars, ratesVars>>

\* lines 134-135: the handler of the try block
Caught ==
    /\ shown' = Append(shown, "error")
    /\ pc' = "done"

\* lines 75, 136-137: nothing uploaded
NoUpload ==
    /\ pc = "start" /\ uploaded_file.tag = "none"
    /\ shown' = Append(shown, "info")
    /\ pc' = "done"
    /\ UNCHANGED <<df, M1_parsed, M2_parsed, m1_stats, m2_stats, combined>>
    /\ UNCHANGED widgets

\* lines 77-78
ReadExcel ==
    /\ pc = "start" /\ uploaded_file.tag = "xlsx"
    /\ df' = [tag |-> "frame",
              columns |-> {StripHeader(h) : h \in uploaded_file.headers},
              cells |-> uploaded_file.cells]
    /\ pc' = "check"
    /\ UNCHANGED <<M1_parsed, M2_parsed, m1_stats, m2_stats, combined, shown>>
    /\ UNCHANGED widgets

\* line 77 raising on a file that is no workbook
ReadExcelRaises ==
    /\ pc = "start" /\ uploaded_file.tag = "unreadable"
    /\ Caught
    /\ UNCHANGED <<df, M1_parsed, M2_parsed, m1_stats, m2_stats, combined>>
    /\ UNCHANGED widgets

\* lines 80-82: st.error, then st.stop(), which ends the run (the exception
\* it raises is no Exception, so the handler of line 134 lets it through)
MissingColumns ==
    /\ pc = "check" /\ ~(required_cols \subseteq df.columns)
    /\ shown' = Append(shown, "error")
    /\ pc' = "stopped"
    /\ UNCHANGED <<df, M1_parsed, M2_parsed, m1_stats, m2_stats, combined>>
    /\ UNCHANGED widgets

\* line 85
ParseModule1 ==
    /\ pc = "check" /\ required_cols \subseteq df.columns
    /\ ApplyParser(df, "Module1").tag = "value"
    /\ M1_parsed' = ApplyParser(df, "Module1")
    /\ pc' = "parse2"
    /\ UNCHANGED <<df, M2_parsed, m1_stats, m2_stats, combined, shown>>
    /\ UNCHANGED widgets

ParseModule1Raises ==
    /\ pc = "check" /\ required_cols \subseteq df.columns
    /\ ApplyParser(df, "Module1").tag # "value"
    /\ Caught
    /\ UNCHANGED <<df, M1_parsed, M2_parsed, m1_stats, m2_stats, combined>>
    /\ UNCHANGED widgets

\* line 86
ParseModule2 ==
    /\ pc = "parse2"
    /\ ApplyParser(df, "Module2").tag = "value"
    /\ M2_parsed' = ApplyParser(df, "Module2")
    /\ pc' = "stats"
    /\ UNCHANGED <<df, M1_parsed, m1_stats, m2_stats, combined, shown>>
    /\ UNCHANGED widgets

ParseModule2Raises ==
    /\ pc = "parse2"
    /\ ApplyParser(df, "Module2").tag # "value"
    /\ Caught
    /\ UNCHANGED <<df, M1_parsed, M2_parsed, m1_stats, m2_stats, combined>>
    /\ UNCHANGED widgets

\* The statistics with the Module2 rows computed from M1_parsed.
ComputeStats_sameColumn ==
    /\ pc = "stats"
    /\ m1_stats' = Value(ModuleStats(<<"m", "1">>, M1_parsed.v, m1_total))
    /\ m2_stats' = Value(ModuleStats(<<"m", "2">>, M1_parsed.v, m2_total))
    /\ combined' = Value(concat(m1_stats'.v, m2_stats'.v))
    /\ pc' = "preview"
    /\ UNCHANGED <<df, M1_parsed, M2_parsed, shown>>
    /\ UNCHANGED widgets

\* lines 89-93
ComputeStats ==
    /\ pc = "stats"
    /\ m1_stats' = Value(ModuleStats(<<"m", "1">>, M1_parsed.v, m1_total))
    /\ m2_stats' = Value(ModuleStats(<<"m", "2">>, M2_parsed.v, m2_total))
    /\ combined' = Value(concat(m1_stats'.v, m2_stats'.v))
    /\ pc' = "preview"
    /\ UNCHANGED <<df, M1_parsed, M2_parsed, shown>>
    /\ UNCHANGED widgets

\* lines 95-96
ShowPreview ==
    /\ pc = "preview"
    /\ shown' = shown \o <<"subheader", "preview">>
    /\ pc' = "export"
    /\ UNCHANGED <<df, M1_parsed, M2_parsed, m1_stats, m2_stats, combined>>
    /\ UNCHANGED widgets

\* line 96 raising: the subheader of line 95 is on the page already
ShowPreviewRaises ==
    /\ pc = "preview"
    /\ shown' = shown \o <<"subheader", "error">>
    /\ pc' = "done"
    /\ UNCHANGED <<df, M1_parsed, M2_parsed, m1_stats, m2_stats, combined>>
    /\ UNCHANGED widgets

\* lines 99-127: the workbook is written into the buffer
WriteExport ==
    /\ pc = "export"
    /\ pc' = "download"
    /\ UNCHANGED <<df, M1_parsed, M2_parsed, m1_stats, m2_stats, combined, shown>>
    /\ UNCHANGED widgets

\* A writer whose failure is reported while the run goes on to the download.
WriteExportRaises_goesOn ==
    /\ pc = "export"
    /\ shown' = Append(shown, "error")
    /\ pc' = "download"
    /\ UNCHANGED <<df, M1_parsed, M2_parsed, m1_stats, m2_stats, combined>>
    /\ UNCHANGED widgets

\* the writer of lines 100-125 raising
WriteExportRaises ==
    /\ pc = "export"
    /\ Caught
    /\ UNCHANGED <<df, M1_parsed, M2_parsed, m1_stats, m2_stats, combined>>
    /\ UNCHANGED widgets

\* lines 128-133
ShowDownload ==
    /\ pc = "download"
    /\ shown' = Append(shown, "download")
    /\ pc' = "done"
    /\ UNCHANGED <<df, M1_parsed, M2_parsed, m1_stats, m2_stats, combined>>
    /\ UNCHANGED widgets

\* line 128 raising
ShowDownloadRaises ==
    /\ pc = "download"
    /\ Caught
    /\ UNCHANGED <<df, M1_parsed, M2_parsed, m1_stats, m2_stats, combined>>
    /\ UNCHANGED widgets

Next ==
    \/ NoUpload
    \/ ReadExcel
    \/ ReadExcelRaises
    \/ MissingColumns
    \/ ParseModule1
    \/ ParseModule1Raises
    \/ ParseModule2
    \/ ParseModule2Raises
    \/ ComputeStats
    \/ ShowPreview
    \/ ShowPreviewRaises
    \/ WriteExport
    \/ WriteExportRaises
    \/ ShowDownload
    \/ ShowDownloadRaises

Spec == Init /\ [][Next]_vars

-----------------------------------------------------------------------------
(* Claims about robust_parse_wrong_list (checked under SpecParser) *)

Range(f) == {f[i] : i \in DOMAIN f}

Called == pc \in {"returned", "raised"}

\* A cell that is missing, empty or made of whitespace only.
IsBlank(c) == c.na \/ \A i \in 1..Len(c.text) : c.text[i] \in Whitespace

\* A cell whose text is one "X" or "x" with whitespace around it.
IsX(c) ==
    /\ ~c.na
    /\ \E i \in 1..Len(c.text) :
          /\ c.text[i] \in {"X", "x"}
          /\ \A j \in 1..Len(c.text) : j # i => c.text[j] \in Whitespace

\* C3: every cell is classified into exactly one outcome: a blank cell gives
\* None (not attempted), "X"/"x" gives the empty list, and every other cell
\* gives a list (attempted), never None.
C3_Classification ==
    Called =>
        /\ IsBlank(cell) => parsed = None
        /\ IsX(cell) => parsed = List(<<>>)
        /\ (~IsBlank(cell) /\ ~IsX(cell)) => parsed.tag = "list"

AsciiDigits == {"0", "1", "2", "3", "4", "5", "6", "7", "8", "9"}
AnySeparator == {",", ";", FWComma, FWSemicolon}

\* A text that is question numbers (ASCII digits) joined by separators.
IsNumberList(s) ==
    /\ s # <<>>
    /\ \A i \in 1..Len(s) : s[i] \in AsciiDigits \cup AnySeparator
    /\ s[1] \in AsciiDigits /\ s[Len(s)] \in AsciiDigits
    /\ \A i \in 1..(Len(s) - 1) : ~(s[i] \in AnySeparator /\ s[i + 1] \in AnySeparator)

\* The value of the digits s[a..b].
RECURSIVE NumberAt(_, _, _)
NumberAt(s, a, b) ==
    IF a > b THEN 0 ELSE 10 * NumberAt(s, a, b - 1) + DigitValue(s[b])

\* The numbers written in a number list: one for every maximal run of digits.
NumbersIn(s) ==
    { NumberAt(s, a, b) : <<a, b>> \in
        { r \in (1..Len(s)) \X (1..Len(s)) :
            /\ r[1] <= r[2]
            /\ \A k \in r[1]..r[2] : s[k] \in AsciiDigits
            /\ (r[1] = 1 \/ s[r[1] - 1] \in AnySeparator)
            /\ (r[2] = Len(s) \/ s[r[2] + 1] \in AnySeparator) } }

\* C4: a list of question numbers written with any mix of the separators
\* comma, full-width comma, semicolon and full-width semicolon parses to
\* exactly that set of numbers.
C4_AnySeparatorMix ==
    (Called /\ ~cell.na /\ IsNumberList(cell.text)) =>
        /\ parsed.tag = "list"
        /\ Range(parsed.v) = NumbersIn(cell.text)

\* The tokens of a text that are non-negative integer literals once trimmed.
LiteralTokens(s) ==
    SelectSeq(split(NormalizeSeparators(strip(s)), ","),
              LAMBDA x : /\ strip(x) # <<>>
                         /\ \A i \in 1..Len(strip(x)) : strip(x)[i] \in DecimalChars)

\* C5: the parser has no error path: whatever the cell holds, the call
\* returns an outcome and raises nothing; of a cell that is neither blank nor
\* X it returns the values of the tokens that are non-negative integer
\* literals, every other token dropped.
C5_NeverRaises ==
    Called =>
        /\ pc = "returned" /\ parsed.tag \in {"None", "list"}
        /\ (~IsBlank(cell) /\ ~IsX(cell)) =>
              parsed = List([i \in 1..Len(LiteralTokens(cell.text)) |->
                                IntDigits(strip(LiteralTokens(cell.text)[i]))])

\* C9 as stated: every integer of a returned list is at least 1.
C9_AllAtLeastOne ==
    (Called /\ parsed.tag = "list") => \A i \in 1..Len(parsed.v) : parsed.v[i] >= 1

\* C9 (amended): every integer of a returned list is at least 0.
C9_AllNonNegative ==
    (Called /\ parsed.tag = "list") => \A i \in 1..Len(parsed.v) : parsed.v[i] >= 0

\* A call that returned a list holding the number 0 beside a positive one.
C9_Witness ==
    /\ pc = "returned" /\ parsed.tag = "list"
    /\ \E i, j \in 1..Len(parsed.v) : parsed.v[i] = 0 /\ parsed.v[j] > 0

-----------------------------------------------------------------------------
(* Claims about compute_module_rates (checked under SpecRates) *)

Abs(x) == IF x < 0 THEN 0 - x ELSE x

\* The students of a series that attempted the module.
Attempting(s) == {i \in DOMAIN s : s[i].tag # "None"}

\* The students of a series whose wrong list holds q.
WrongOn(s, q) == {i \in Attempting(s) : q \in Range(s[i].v)}

\* C1: the call returns exactly N rows numbered 1..N in ascending order; the
\* wrong-count of row q is the number of attempting students whose list holds
\* q, a student counted once however often q occurs in the list; so no
\* wrong-count exceeds the attempted-count.
C1_RowsAndCounts ==
    pc = "returned" =>
        /\ Len(rows) = total_questions
        /\ \A q \in 1..total_questions :
              /\ q \in DOMAIN rows
              /\ rows[q].question_no = q
              /\ rows[q].wrong = Cardinality(WrongOn(series, q))
              /\ rows[q].wrong <= Cardinality(Attempting(series))

\* A call with two questions, a student who did not attempt, and a student
\* whose list holds question 2 twice and is the only one wrong on it.
C1_Witness ==
    /\ pc = "returned" /\ total_questions >= 2
    /\ \E i, j \in DOMAIN series :
          /\ series[i] = None
          /\ series[j] = List(<<2, 2>>)
          /\ WrongOn(series, 2) = {j}
    /\ rows[2].wrong = 1

\* C2: attempted-count is the number of outcomes that are not None; a rate
\* is 0.0 when it is 0 and otherwise 100 * wrong / attempted rounded to one
\* decimal (within half a tenth of the exact quotient); every rate lies in
\* 0.0 .. 100.0.  Rates are in tenths of a percent.
C2_Rates ==
    pc = "returned" =>
        /\ attempted = Cardinality(Attempting(series))
        /\ \A i \in DOMAIN rows :
              /\ attempted = 0 => rows[i].rate = 0
              /\ attempted > 0 =>
                    2 * Abs(rows[i].rate * attempted - 1000 * rows[i].wrong) <= attempted
              /\ rows[i].rate >= 0 /\ rows[i].rate <= 1000

\* A call with three attempting students (and one who did not attempt or
\* none) where one rate rounds down to 33.3 and another rounds up to 66.7.
C2_Witness ==
    /\ pc = "returned" /\ attempted = 3
    /\ \E i, j \in DOMAIN rows :
          /\ rows[i].wrong = 1 /\ rows[i].rate = 333
          /\ rows[j].wrong = 2 /\ rows[j].rate = 667

\* A series with the numbers outside 1..total taken out of every list.
InRangeOnly(s, total) ==
    [i \in DOMAIN s |->
        IF s[i].tag = "list"
        THEN List(SelectSeq(s[i].v, LAMBDA n : n \in 1..total))
        ELSE s[i]]

\* C10: question numbers outside 1..N do not show in the result: the rows are
\* those of the series with these numbers taken out (so two series that
\* differ only by such numbers get identical rows), no row is numbered
\* outside 1..N, and a student who listed such a number still counts as
\* attempting.
C10_OutOfRangeIgnored ==
    pc = "returned" =>
        /\ rows = compute_module_rates(InRangeOnly(series, total_questions),
                                       total_questions)
        /\ \A i \in DOMAIN rows : rows[i].question_no \in 1..total_questions
        /\ attempted = Cardinality(Attempting(InRangeOnly(series, total_questions)))

\* A call where one student listed only the number 0, another only the number
\* N + 1, and a third was wrong on question 1.
C10_Witness ==
    /\ pc = "returned"
    /\ \E i, j, k \in DOMAIN series :
          /\ series[i] = List(<<0>>)
          /\ series[j] = List(<<total_questions + 1>>)
          /\ series[k].tag = "list" /\ 1 \in Range(series[k].v)
    /\ attempted = 3 /\ rows[1].wrong = 1

-----------------------------------------------------------------------------
(* Claims about the upload handling (checked under Spec) *)

Shown(e) == \E i \in 1..Len(shown) : shown[i] = e

\* The frame has been read and lacks a required column.
LacksColumn ==
    df.tag = "frame" /\ \E c \in {"ireum", "Module1", "Module2"} : c \notin df.columns

\* C6: when the table lacks a required column, the run shows an error message
\* and halts before any cell is parsed or any statistic computed; it produces
\* no preview table and no download.
C6_MissingColumnsHalt ==
    LacksColumn =>
        /\ pc \in {"check", "stopped"}
        /\ pc = "stopped" => shown = <<"error">>
        /\ M1_parsed = Unset /\ M2_parsed = Unset
        /\ m1_stats = Unset /\ m2_stats = Unset /\ combined = Unset
        /\ ~Shown("preview") /\ ~Shown("download")

\* A halted run on a table that has "ireum" and "Module1" (with a cell that
\* is a list) but no "Module2".
C6_Witness ==
    /\ pc = "stopped" /\ LacksColumn
    /\ df.columns = {"ireum", "Module1"}
    /\ \E i \in DOMAIN df.cells["Module1"] :
          df.cells["Module1"][i] = Text(<<"1", ",", "2">>)
    /\ Shown("error")

\* The outcomes of a column of cells.
OutcomesOf(col) == [i \in DOMAIN col |-> robust_parse_wrong_list(col[i])]

\* Row r is the row of question q of a module labelled prefix, tallied from
\* the column col alone.
IsRowOf(r, prefix, q, col) ==
    LET att == Cardinality(Attempting(OutcomesOf(col)))
        wrong == Cardinality(WrongOn(OutcomesOf(col), q))
    IN  /\ r.question_no = prefix \o <<"-">> \o str(q)
        /\ r.wrong = wrong
        /\ att = 0 => r.rate = 0
        /\ att > 0 => 2 * Abs(r.rate * att - 1000 * wrong) <= att

\* C7: the report of a valid upload has N1 + N2 rows: the Module1 rows m1-1 ..
\* m1-N1 in ascending order, then the Module2 rows m2-1 .. m2-N2; an m1 row is
\* tallied from the Module1 column (and N1) alone, an m2 row from the Module2
\* column (and N2) alone.
C7_Report ==
    combined.tag = "value" =>
        /\ Len(combined.v) = m1_total + m2_total
        /\ \A q \in 1..m1_total :
              IsRowOf(combined.v[q], <<"m", "1">>, q, df.cells["Module1"])
        /\ \A q \in 1..m2_total :
              IsRowOf(combined.v[m1_total + q], <<"m", "2">>, q, df.cells["Module2"])

\* A finished run with a download whose modules differ in question count and
\* in tally: two students wrong on m1-1, none wrong on m2-1.
C7_Witness ==
    /\ pc = "done" /\ Shown("download") /\ combined.tag = "value"
    /\ m1_total = 1 /\ m2_total = 2
    /\ combined.v[1].wrong = 2 /\ combined.v[1].rate = 1000
    /\ combined.v[2].question_no = <<"m", "2", "-", "1">>
    /\ combined.v[2].wrong = 0
    /\ combined.v[3].question_no = <<"m", "2", "-", "2">>

\* C8 as stated: a run in which an exception was caught has shown the error
\* message and neither the preview table nor the download.
C8_NoPartialOutput ==
    (pc = "done" /\ uploaded_file.tag # "none") =>
        \/ Shown("download") /\ ~Shown("error")
        \/ Shown("error") /\ ~Shown("preview") /\ ~Shown("download")

\* C8 (amended): a run of an upload ends with the download and no error
\* message, or with the error message as its last element and no download;
\* in the second case the preview table is on the page only if reading,
\* parsing and aggregating had all succeeded (the exception came after the
\* preview was shown).
C8_ErrorEndsRun ==
    (pc = "done" /\ uploaded_file.tag # "none") =>
        \/ Shown("download") /\ ~Shown("error")
        \/ /\ shown[Len(shown)] = "error"
           /\ ~Shown("download")
           /\ Shown("preview") => (combined.tag = "value" /\ shown = <<"subheader", "preview", "error">>)

\* A run that showed the preview table and then ended with the error message.
C8_Witness ==
    /\ pc = "done" /\ combined.tag = "value"
    /\ shown = <<"subheader", "preview", "error">>

=============================================================================
